---- MODULE Spec2Model ----
(***************************************************************************)
(* A model of lab5/src/reconstruction.py: robust resection (adaptive       *)
(* RANSAC around the DLT camera estimation), the projective-to-affine      *)
(* upgrade and the K,R,t factorization of a camera matrix.                 *)
(*                                                                         *)
(* Python indices are 0-based and kept 0-based wherever the program        *)
(* stores them (best_inliers, points); sequences of the model are 1-based, *)
(* so row k of an array is element k+1 of its sequence.                    *)
(***************************************************************************)
EXTENDS Integers, Sequences, FiniteSets, TLC

VARIABLES
    \* resection(tracks, i)
    tracks,         \* the caller's track database (a list of tracks)
    i,              \* the view index passed to resection
    pts3d,          \* gathered 3D points (rows of the array)
    pts2d,          \* gathered 2D points, homogeneous after homog()
    n,              \* pts3d.shape[0]
    max_it,         \* the iteration budget, held as its ceiling (see EstimatedIt)
    it,             \* the iteration counter
    best_inliers,   \* sorted 0-based indices of the best inlier set
    P,              \* the camera matrix returned by resection
    pc,             \* position of the call: start, loop, done, failed
    err,            \* where the exception was raised, "" when none
    fits,           \* history: number of camera_matrix calls made so far
    maxSeen,        \* history: largest len(inliers) of any iteration so far
    \* transform(aff_hom, Xprj, cams_pr)
    aff_hom,        \* the 4x4 homography H
    Xprj,           \* the projective points, one 4-vector per column
    cams_pr,        \* the projective cameras, a list of 3x4 matrices
    Xaff,           \* the returned points
    cams_aff,       \* the returned cameras
    tpc,            \* position of the call: idle, start, done, failed
    \* KRt_from_P(P)
    Pcam,           \* the 3x4 camera matrix passed in
    rawK,           \* history: the triangular factor RQ_factorization returned
    rawR,           \* history: the orthogonal factor RQ_factorization returned
    K,              \* the returned intrinsic matrix
    R,              \* the returned rotation
    t,              \* the returned translation
    kpc             \* position of the call: idle, start, done, failed

rvars == <<tracks, i, pts3d, pts2d, n, max_it, it, best_inliers, P, pc, err,
           fits, maxSeen>>

tvars == <<aff_hom, Xprj, cams_pr, Xaff, cams_aff, tpc>>

kvars == <<Pcam, rawK, rawR, K, R, t, kpc>>

vars == <<rvars, tvars, kvars>>

----------------------------------------------------------------------------
(* Bounds of the model *)

MaxTracks == 7          \* longest track database explored

Views == {0, 1}         \* view indices that tracks may observe

----------------------------------------------------------------------------
(* Small helpers *)

Interval(a, b) == [k \in 1..(b - a + 1) |-> a + k - 1]

Range(s) == {s[k] : k \in DOMAIN s}

\* rows of an array selected by a sequence of 0-based indices: arr[idx]
Take(arr, idx) == [k \in 1..Len(idx) |-> arr[idx[k] + 1]]

Min2(a, b) == IF a <= b THEN a ELSE b

Max2(a, b) == IF a >= b THEN a ELSE b

----------------------------------------------------------------------------
(* Tracks: a 3D point (homogeneous, scale 0 = not triangulated) and a      *)
(* mapping from view index to the 2D observation in that view.             *)

Track(j, w, vs) == [pt |-> <<j, 0, 1, w>>, views |-> [v \in vs |-> <<j, 10 + v>>]]

\* a database of len tracks, all triangulated and seen in every view, except
\* track b (0 = none), which is either not triangulated or not seen in view v
Database(len, b, kind, v) ==
    [j \in 1..len |->
        IF j # b THEN Track(j, 1, Views)
        ELSE IF kind = "unset" THEN Track(j, 0, Views)
        ELSE Track(j, 1, Views \ {v})]

Databases(v) ==
    {Database(len, 0, "unset", v) : len \in 0..MaxTracks}
    \cup UNION {{Database(len, b, kind, v) :
                    b \in {1, len}, kind \in {"unset", "unseen"}} :
                 len \in 1..MaxTracks}

----------------------------------------------------------------------------
(* homog (lines 140-141) *)

homog(x) == [k \in 1..Len(x) |-> Append(x[k], 1)]

----------------------------------------------------------------------------
(* resection: gathering the correspondences (lines 61-69) *)

\* lines 66-67: what one gathered track contributes, and the track as the
\* reads leave it (tk.pt and tk.views[i] are plain reads)
observePop(tk, v) ==
    [pt |-> tk.pt, x |-> tk.views[v],
     tk |-> [tk EXCEPT !.views = [u \in DOMAIN tk.views \ {v} |-> tk.views[u]]]]

observe(tk, v) == [pt |-> tk.pt, x |-> tk.views[v], tk |-> tk]

\* line 65
usableAnyScale(tk, v) == v \in DOMAIN tk.views

usable(tk, v) == tk.pt[4] # 0 /\ v \in DOMAIN tk.views

\* lines 62-67: the loop over the tracks, in the order of the database
extract(tks, v) ==
    LET Usable(tk) == usable(tk, v)
        taken == SelectSeq(tks, Usable)
    IN  [pts3d  |-> [k \in 1..Len(taken) |-> observe(taken[k], v).pt],
         pts2d  |-> [k \in 1..Len(taken) |-> observe(taken[k], v).x],
         tracks |-> [j \in 1..Len(tks) |->
                       IF usable(tks[j], v) THEN observe(tks[j], v).tk ELSE tks[j]]]

----------------------------------------------------------------------------
(* Point normalization (lines 148-166).  mean and std are real numbers.  The *)
(* transform T is represented by the block of points it is computed from    *)
(* (mean and std are functions of the block), and a normalized point by the *)
(* name of the transform applied to it with the point it is applied to.     *)

\* pts = T @ pts.T : every point of the block is mapped by the same T
normalize2dpts(pts) ==
    [pts |-> [k \in 1..Len(pts) |-> [by |-> "T2", raw |-> pts[k]]],
     T   |-> [name |-> "T2", of |-> pts]]

normalize3dpts(pts) ==
    [pts |-> [k \in 1..Len(pts) |-> [by |-> "T1", raw |-> pts[k]]],
     T   |-> [name |-> "T1", of |-> pts]]

----------------------------------------------------------------------------
(* camera_matrix (lines 116-137).  P is the null vector of A, denormalized  *)
(* by T1 and T2; it is represented by what determines it: the rows of A and *)
(* the two transforms.  Row 2k is the "y" equation of correspondence k and  *)
(* row 2k+1 its "x" equation.                                               *)

SampleSize == 6

\* line 122-127: the rows of A
DLTRows(p3, p2) ==
    [r \in 1..(2 * SampleSize) |->
        [eq |-> IF r % 2 = 1 THEN "y" ELSE "x",
         X  |-> p3[(r + 1) \div 2],
         x  |-> p2[(r + 1) \div 2]]]

camera_matrix(p3, p2) ==
    LET n3 == normalize3dpts(p3)
        n2 == normalize2dpts(p2)
    IN  [A |-> DLTRows(n3.pts, n2.pts), T1 |-> n3.T, T2 |-> n2.T]

NoCamera == [A |-> <<>>, T1 |-> <<>>, T2 |-> <<>>]

----------------------------------------------------------------------------
(* The adaptive budget (lines 93-97).                                       *)
(*   log(1 - p) / log(pNoOutliers),  pNoOutliers = 1 - (k/n)^6 clipped to   *)
(*   [eps, 1 - eps],  p = 0.999                                             *)
(* is a real number.  The loop only compares the budget with the integer    *)
(* counter, and  it < x  iff  it < ceil(x),  and ceil(min(a, b)) =          *)
(* min(ceil(a), ceil(b)); so the model holds the ceiling of the budget.     *)
(* The ceilings are tabulated from the formula evaluated in IEEE doubles,   *)
(* row n, column k = len(best_inliers); an estimate above 1000 is entered   *)
(* as 1001.                                                                 *)

EstimateTable ==
    [m \in 1..9 |->
        CASE m = 1  -> <<1001, 1>>
          [] m = 2  -> <<1001, 439, 1>>
          [] m = 3  -> <<1001, 1001, 76, 1>>
          [] m = 4  -> <<1001, 1001, 439, 36, 1>>
          [] m = 5  -> <<1001, 1001, 1001, 145, 23, 1>>
          [] m = 6  -> <<1001, 1001, 1001, 439, 76, 17, 1>>
          [] m = 7  -> <<1001, 1001, 1001, 1001, 195, 49, 14, 1>>
          [] m = 8  -> <<1001, 1001, 1001, 1001, 439, 113, 36, 12, 1>>
          [] m = 9  -> <<1001, 1001, 1001, 1001, 893, 232, 76, 28, 11, 1>>]

EstimatedIt(k, m) == EstimateTable[m][k + 1]

MaxIterations == 1000

\* line 97
ShrinkBudgetNoMin(budget, k, m) == EstimatedIt(k, m)

ShrinkBudget(budget, k, m) == Min2(budget, EstimatedIt(k, m))

\* line 83
LoopCondInclusive(count, budget) == count <= budget

LoopCond(count, budget) == count < budget

\* line 90-91
KeepBestOnTie(best, inliers) == IF Len(inliers) >= Len(best) THEN inliers ELSE best

KeepBest(best, inliers) == IF Len(inliers) > Len(best) THEN inliers ELSE best

\* line 101
MinInliers == 6

TooFewInliersOffByOne(best) == Len(best) <= MinInliers

TooFewInliers(best) == Len(best) < MinInliers

----------------------------------------------------------------------------
(* What an iteration can draw and find *)

\* np.random.choice(range(n), 6, replace=False): 6 distinct indices of
\* 0..n-1, which do not exist when n < 6 (the call then raises).  The samples
\* explored are the windows of six consecutive indices.
SamplesWithReplacement(m) == IF m >= 1 THEN {[k \in 1..SampleSize |-> 0]} ELSE {}

Samples(m) == {Interval(a, a + SampleSize - 1) : a \in 0..(m - SampleSize)}

\* np.where(d < th)[0]: a sorted index array.  The distances depend on the
\* real-valued data; the inlier sets explored are the empty one, the
\* prefixes 0..b of at least four indices and the last six indices.
InlierSets(m) ==
    {<<>>} \cup {Interval(0, b) : b \in 3..(m - 1)}
           \cup {Interval(m - SampleSize, m - 1)}

----------------------------------------------------------------------------
(* resection *)

Init ==
    /\ i \in Views
    /\ tracks \in Databases(i)
    /\ pts3d = <<>>
    /\ pts2d = <<>>
    /\ n = 0
    /\ max_it = 0
    /\ it = 0
    /\ best_inliers = <<>>
    /\ P = NoCamera
    /\ pc = "start"
    /\ err = ""
    /\ fits = 0
    /\ maxSeen = 0
    /\ aff_hom = <<>>
    /\ Xprj = <<>>
    /\ cams_pr = <<>>
    /\ Xaff = <<>>
    /\ cams_aff = <<>>
    /\ tpc = "idle"
    /\ Pcam = <<>>
    /\ rawK = <<>>
    /\ rawR = <<>>
    /\ K = <<>>
    /\ R = <<>>
    /\ t = <<>>
    /\ kpc = "idle"

\* lines 61-82 with at least one correspondence
Extract ==
    /\ pc = "start"
    /\ LET g == extract(tracks, i)
       IN  /\ Len(g.pts3d) > 0
           /\ tracks' = g.tracks
           /\ pts3d' = g.pts3d
           /\ pts2d' = homog(g.pts2d)
           /\ n' = Len(g.pts3d)
    /\ max_it' = MaxIterations
    /\ it' = 0
    /\ best_inliers' = <<>>
    /\ pc' = "loop"
    /\ UNCHANGED <<i, P, err, fits, maxSeen>>
    /\ UNCHANGED <<tvars, kvars>>

\* lines 61-72 with no correspondence: np.asarray([]) has one dimension and
\* homog cannot concatenate a column to it
ExtractNone ==
    /\ pc = "start"
    /\ LET g == extract(tracks, i)
       IN  /\ Len(g.pts3d) = 0
           /\ tracks' = g.tracks
           /\ pts3d' = g.pts3d
           /\ pts2d' = g.pts2d
    /\ pc' = "failed"
    /\ err' = "homog"
    /\ UNCHANGED <<i, n, max_it, it, best_inliers, P, fits, maxSeen>>
    /\ UNCHANGED <<tvars, kvars>>

\* line 84 with n < 6: a sample of 6 without replacement cannot be drawn
SampleFails ==
    /\ pc = "loop"
    /\ LoopCond(it, max_it)
    /\ Samples(n) = {}
    /\ pc' = "failed"
    /\ err' = "choice"
    /\ UNCHANGED <<tracks, i, pts3d, pts2d, n, max_it, it, best_inliers, P,
                   fits, maxSeen>>
    /\ UNCHANGED <<tvars, kvars>>

\* lines 83-99: one iteration.  The candidate fitted on the sample (line 85)
\* is used only to find the inliers of this iteration and is not kept.
Iterate ==
    /\ pc = "loop"
    /\ LoopCond(it, max_it)
    /\ Samples(n) # {}
    /\ \E inliers \in InlierSets(n) :
          LET best == KeepBest(best_inliers, inliers)
          IN  /\ best_inliers' = best
              /\ max_it' = ShrinkBudget(max_it, Len(best), n)
              /\ maxSeen' = Max2(maxSeen, Len(inliers))
    /\ it' = it + 1
    /\ fits' = fits + 1
    /\ UNCHANGED <<tracks, i, pts3d, pts2d, n, P, pc, err>>
    /\ UNCHANGED <<tvars, kvars>>

\* lines 101-102
FinishFails ==
    /\ pc = "loop"
    /\ ~LoopCond(it, max_it)
    /\ TooFewInliers(best_inliers)
    /\ pc' = "failed"
    /\ err' = "inliers"
    /\ UNCHANGED <<tracks, i, pts3d, pts2d, n, max_it, it, best_inliers, P,
                   fits, maxSeen>>
    /\ UNCHANGED <<tvars, kvars>>

\* lines 104-113
Finish ==
    /\ pc = "loop"
    /\ ~LoopCond(it, max_it)
    /\ ~TooFewInliers(best_inliers)
    /\ P' = camera_matrix(Take(pts3d, best_inliers), Take(pts2d, best_inliers))
    /\ fits' = fits + 1
    /\ pc' = "done"
    /\ UNCHANGED <<tracks, i, pts3d, pts2d, n, max_it, it, best_inliers, err,
                   maxSeen>>
    /\ UNCHANGED <<tvars, kvars>>

NextResection ==
    \/ Extract
    \/ ExtractNone
    \/ SampleFails
    \/ Iterate
    \/ FinishFails
    \/ Finish

Spec == Init /\ [][NextResection]_vars

\* the call runs to its end: one thread, no blocking step
FairSpec == Init /\ [][NextResection]_vars /\ WF_vars(NextResection)

----------------------------------------------------------------------------
(* Exact linear algebra on small integer matrices (a matrix is a sequence   *)
(* of rows).  A quotient is kept as numerator and denominator: a matrix or  *)
(* vector divided by a scalar is [num |-> ..., den |-> ...]; den = 0 is a   *)
(* division by zero, whose IEEE result has no finite value.                 *)

Rows(M) == Len(M)

Cols(M) == Len(M[1])

Dot(u, v) ==
    IF Len(u) = 3 THEN u[1] * v[1] + u[2] * v[2] + u[3] * v[3]
    ELSE u[1] * v[1] + u[2] * v[2] + u[3] * v[3] + u[4] * v[4]

Column(M, c) == [r \in 1..Len(M) |-> M[r][c]]

MatMul(A, B) == [r \in 1..Rows(A) |-> [c \in 1..Cols(B) |-> Dot(A[r], Column(B, c))]]

MatVec(A, x) == [r \in 1..Rows(A) |-> Dot(A[r], x)]

Transpose(M) == [c \in 1..Cols(M) |-> [r \in 1..Rows(M) |-> M[r][c]]]

Scale(a, M) == [r \in 1..Rows(M) |-> [c \in 1..Cols(M) |-> a * M[r][c]]]

ScaleVec(a, x) == [k \in 1..Len(x) |-> a * x[k]]

\* the matrix without row r and column c
Minor(M, r, c) ==
    [a \in 1..(Rows(M) - 1) |->
        [b \in 1..(Cols(M) - 1) |->
            M[IF a < r THEN a ELSE a + 1][IF b < c THEN b ELSE b + 1]]]

Det2(M) == M[1][1] * M[2][2] - M[1][2] * M[2][1]

Det3(M) ==
      M[1][1] * Det2(Minor(M, 1, 1))
    - M[1][2] * Det2(Minor(M, 1, 2))
    + M[1][3] * Det2(Minor(M, 1, 3))

Det4(M) ==
      M[1][1] * Det3(Minor(M, 1, 1))
    - M[1][2] * Det3(Minor(M, 1, 2))
    + M[1][3] * Det3(Minor(M, 1, 3))
    - M[1][4] * Det3(Minor(M, 1, 4))

Det(M) == IF Rows(M) = 4 THEN Det4(M) ELSE Det3(M)

Cofactor(M, r, c) ==
    (IF (r + c) % 2 = 0 THEN 1 ELSE -1)
    * (IF Rows(M) = 4 THEN Det3(Minor(M, r, c)) ELSE Det2(Minor(M, r, c)))

Adjugate(M) == [r \in 1..Rows(M) |-> [c \in 1..Cols(M) |-> Cofactor(M, c, r)]]

\* np.linalg.inv of a nonsingular matrix: adj(M) / det(M)
inv(M) == [num |-> Adjugate(M), den |-> Det(M)]

Sign(x) == IF x > 0 THEN 1 ELSE IF x < 0 THEN -1 ELSE 0

Diag3(d) == <<<<d[1], 0, 0>>, <<0, d[2], 0>>, <<0, 0, d[3]>>>>

\* two integer vectors equal up to one nonzero scale factor
Proportional(u, v) ==
    /\ Len(u) = Len(v)
    /\ \A a, b \in 1..Len(u) : u[a] * v[b] = u[b] * v[a]
    /\ (\A a \in 1..Len(u) : u[a] = 0) <=> (\A a \in 1..Len(v) : v[a] = 0)

\* a quotient vector equal to an integer vector up to a nonzero scale factor
ProportionalQ(q, v) == q.den # 0 /\ Proportional(q.num, v)

----------------------------------------------------------------------------
(* transform (lines 49-57) *)

MaxPoints == 2          \* most points passed to transform

MaxCams == 2            \* most cameras passed to transform

\* homographies [I 0; a 0 0 d] (plane-at-infinity form) and three general
\* ones, the last of them singular
Homographies ==
    {<<<<1, 0, 0, 0>>, <<0, 1, 0, 0>>, <<0, 0, 1, 0>>, <<a, 0, 0, d>>>> :
        a \in {-1, 0, 1}, d \in {0, 1}}
    \cup {<<<<2, 0, 0, 1>>, <<0, 1, 0, 0>>, <<1, 0, 1, 0>>, <<0, 0, 0, 1>>>>,
          <<<<0, 1, 0, 0>>, <<1, 0, 0, 0>>, <<0, 0, 1, 1>>, <<0, 0, 1, 2>>>>,
          <<<<1, 1, 0, 0>>, <<1, 1, 0, 0>>, <<0, 0, 1, 0>>, <<0, 0, 0, 1>>>>}

Points4 == {<<1, 0, 0, 1>>, <<0, 1, 2, 1>>, <<-1, 2, 0, 2>>}

Cameras == {<<<<1, 0, 0, 0>>, <<0, 1, 0, 0>>, <<0, 0, 1, 0>>>>,
            <<<<1, 0, 2, 1>>, <<0, 1, 0, -1>>, <<1, 0, 1, 2>>>>}

SeqsUpTo(S, lo, hi) == UNION {[1..k -> S] : k \in lo..hi}

\* lines 52-53: one column of Xaff = (H X) / (H X)[3]
UpgradePoint(H, X) == [num |-> MatVec(H, X), den |-> MatVec(H, X)[4]]

\* line 55: cam @ inv(H)
UpgradeCameraNoInverse(H, cam) == [num |-> MatMul(cam, H), den |-> 1]

UpgradeCamera(H, cam) == [num |-> MatMul(cam, inv(H).num), den |-> inv(H).den]

\* the product of a quotient camera and a quotient point
Project(cam, X) == [num |-> MatVec(cam.num, X.num), den |-> cam.den * X.den]

InitTransform ==
    /\ aff_hom \in Homographies
    /\ Xprj \in SeqsUpTo(Points4, 1, MaxPoints)
    /\ cams_pr \in SeqsUpTo(Cameras, 0, MaxCams)
    /\ Xaff = <<>>
    /\ cams_aff = <<>>
    /\ tpc = "start"
    /\ tracks = <<>>
    /\ i = 0
    /\ pts3d = <<>>
    /\ pts2d = <<>>
    /\ n = 0
    /\ max_it = 0
    /\ it = 0
    /\ best_inliers = <<>>
    /\ P = NoCamera
    /\ pc = "idle"
    /\ err = ""
    /\ fits = 0
    /\ maxSeen = 0
    /\ Pcam = <<>>
    /\ rawK = <<>>
    /\ rawR = <<>>
    /\ K = <<>>
    /\ R = <<>>
    /\ t = <<>>
    /\ kpc = "idle"

\* lines 52-57 with a nonsingular aff_hom
Transform ==
    /\ tpc = "start"
    /\ Det(aff_hom) # 0
    /\ Xaff' = [k \in 1..Len(Xprj) |-> UpgradePoint(aff_hom, Xprj[k])]
    /\ cams_aff' = [c \in 1..Len(cams_pr) |-> UpgradeCamera(aff_hom, cams_pr[c])]
    /\ tpc' = "done"
    /\ UNCHANGED <<aff_hom, Xprj, cams_pr>>
    /\ UNCHANGED <<rvars, kvars>>

\* line 55 with at least one camera and a singular aff_hom: np.linalg.inv raises
TransformSingular ==
    /\ tpc = "start"
    /\ Det(aff_hom) = 0
    /\ Len(cams_pr) > 0
    /\ tpc' = "failed"
    /\ UNCHANGED <<aff_hom, Xprj, cams_pr, Xaff, cams_aff>>
    /\ UNCHANGED <<rvars, kvars>>

\* lines 52-57 with no camera: inv is never called
TransformNoCamera ==
    /\ tpc = "start"
    /\ Det(aff_hom) = 0
    /\ Len(cams_pr) = 0
    /\ Xaff' = [k \in 1..Len(Xprj) |-> UpgradePoint(aff_hom, Xprj[k])]
    /\ cams_aff' = <<>>
    /\ tpc' = "done"
    /\ UNCHANGED <<aff_hom, Xprj, cams_pr>>
    /\ UNCHANGED <<rvars, kvars>>

NextTransform ==
    \/ Transform
    \/ TransformSingular
    \/ TransformNoCamera

SpecTransform == InitTransform /\ [][NextTransform]_vars

----------------------------------------------------------------------------
(* KRt_from_P and RQ_factorization (lines 169-199) *)

MaxEntry == 2           \* largest entry of the triangular factors explored

flipud(M) == [r \in 1..Rows(M) |-> M[Rows(M) + 1 - r]]

fliplr(M) == [r \in 1..Rows(M) |-> [c \in 1..Cols(M) |-> M[r][Cols(M) + 1 - c]]]

IsUpper(M) == \A r \in 1..Rows(M) : \A c \in 1..(r - 1) : M[r][c] = 0

\* the orthogonal matrices with integer entries: signed permutations
Perms3 == {<<1, 2, 3>>, <<2, 3, 1>>, <<3, 1, 2>>, <<2, 1, 3>>, <<1, 3, 2>>, <<3, 2, 1>>}

Orthogonal3 ==
    {[r \in 1..3 |-> [c \in 1..3 |-> IF c = pm[r] THEN sg[r] ELSE 0]] :
        pm \in Perms3, sg \in [1..3 -> {-1, 1}]}

\* np.linalg.qr(M): every pair (Q, R) with Q orthogonal, R upper triangular
\* and Q R = M; the signs of the diagonal of R are the library's choice.
\* R = Q^T M, since Q^T Q = I.
qr(M) ==
    {<<Q, MatMul(Transpose(Q), M)>> :
        Q \in {Z \in Orthogonal3 : IsUpper(MatMul(Transpose(Z), M))}}

\* lines 196-199
RQ_factorization(A) ==
    {<<fliplr(flipud(Transpose(f[2]))), flipud(Transpose(f[1]))>> :
        f \in qr(Transpose(flipud(A)))}

\* line 177: T = diag(sign(diag(K)))
SignFix(Kraw) == Diag3(<<Sign(Kraw[1][1]), Sign(Kraw[2][2]), Sign(Kraw[3][3])>>)

\* line 180: np.linalg.solve(K, b) for a nonsingular K: adj(K) b / det(K)
solve(Km, b) == [num |-> MatVec(Adjugate(Km), b), den |-> Det(Km)]

\* lines 182-184
FixHandednessRotationOnly(Rm, tq) ==
    IF Det(Rm) < 0 THEN [R |-> Scale(-1, Rm), t |-> tq] ELSE [R |-> Rm, t |-> tq]

FixHandedness(Rm, tq) ==
    IF Det(Rm) < 0
    THEN [R |-> Scale(-1, Rm), t |-> [num |-> ScaleVec(-1, tq.num), den |-> tq.den]]
    ELSE [R |-> Rm, t |-> tq]

\* line 186: K /= K[2, 2]
NormaliseK(Km) == [num |-> Km, den |-> Km[3][3]]

\* cameras K0 [Q0 | p4] with K0 upper triangular and Q0 orthogonal
UpperFactors ==
    {<<<<a, s, 0>>, <<0, 1, s>>, <<0, 0, c>>>> :
        a \in 0..MaxEntry, s \in {0, 1}, c \in 1..MaxEntry}

OrthogonalFactors ==
    {<<<<1, 0, 0>>, <<0, 1, 0>>, <<0, 0, 1>>>>,
     <<<<0, 1, 0>>, <<0, 0, 1>>, <<1, 0, 0>>>>,
     <<<<1, 0, 0>>, <<0, 1, 0>>, <<0, 0, -1>>>>,
     <<<<0, -1, 0>>, <<-1, 0, 0>>, <<0, 0, 1>>>>}

LastColumns == {<<0, 0, 0>>, <<1, 2, 2>>, <<-1, 0, 3>>}

HCat(M, v) == [r \in 1..Rows(M) |-> Append(M[r], v[r])]

Left3(M) == [r \in 1..Rows(M) |-> SubSeq(M[r], 1, 3)]

InitKRt ==
    /\ Pcam \in {HCat(MatMul(K0, Q0), p4) :
                    K0 \in UpperFactors, Q0 \in OrthogonalFactors, p4 \in LastColumns}
    /\ rawK = <<>>
    /\ rawR = <<>>
    /\ K = <<>>
    /\ R = <<>>
    /\ t = <<>>
    /\ kpc = "start"
    /\ tracks = <<>>
    /\ i = 0
    /\ pts3d = <<>>
    /\ pts2d = <<>>
    /\ n = 0
    /\ max_it = 0
    /\ it = 0
    /\ best_inliers = <<>>
    /\ P = NoCamera
    /\ pc = "idle"
    /\ err = ""
    /\ fits = 0
    /\ maxSeen = 0
    /\ aff_hom = <<>>
    /\ Xprj = <<>>
    /\ cams_pr = <<>>
    /\ Xaff = <<>>
    /\ cams_aff = <<>>
    /\ tpc = "idle"

\* lines 174-188 with a nonsingular K
KRt ==
    /\ kpc = "start"
    /\ \E f \in RQ_factorization(Left3(Pcam)) :
          LET T  == SignFix(f[1])
              K1 == MatMul(f[1], T)
              R1 == MatMul(T, f[2])
              h  == FixHandedness(R1, solve(K1, Column(Pcam, 4)))
          IN  /\ Det(K1) # 0
              /\ rawK' = f[1]
              /\ rawR' = f[2]
              /\ K' = NormaliseK(K1)
              /\ R' = h.R
              /\ t' = h.t
    /\ kpc' = "done"
    /\ UNCHANGED Pcam
    /\ UNCHANGED <<rvars, tvars>>

\* line 180 with a singular K: np.linalg.solve raises
KRtSingular ==
    /\ kpc = "start"
    /\ \E f \in RQ_factorization(Left3(Pcam)) :
          /\ Det(MatMul(f[1], SignFix(f[1]))) = 0
          /\ rawK' = f[1]
          /\ rawR' = f[2]
    /\ kpc' = "failed"
    /\ UNCHANGED <<Pcam, K, R, t>>
    /\ UNCHANGED <<rvars, tvars>>

NextKRt ==
    \/ KRt
    \/ KRtSingular

SpecKRt == InitKRt /\ [][NextKRt]_vars

----------------------------------------------------------------------------
(* Properties of resection *)

\* indices of the tracks with a nonzero-scale 3D point and an observation in view i
UsableIdx == {j \in DOMAIN tracks : tracks[j].pt[4] # 0 /\ i \in DOMAIN tracks[j].views}

\* the k-th such track, in the order of the database
KthUsable(k) == CHOOSE j \in UsableIdx : Cardinality({m \in UsableIdx : m <= j}) = k

Returned == pc = "done"

C2_InlierCheck ==
    /\ Returned => Len(best_inliers) >= 6 /\ P # NoCamera
    /\ pc = "failed" /\ n >= 6 =>
          /\ err = "inliers"
          /\ Len(best_inliers) < 6
          /\ P = NoCamera

C2_Witness == pc = "failed" /\ err = "inliers" /\ n >= 6 /\ Len(best_inliers) = 5

\* C3: the returned camera is fitted on exactly the best inlier set: two rows
\* of A for every best inlier, and no row from another correspondence.
C3_FitOnWholeInlierSet ==
    Returned =>
        /\ Len(P.A) = 2 * Len(best_inliers)
        /\ {P.A[r].X.raw : r \in DOMAIN P.A} = {pts3d[b + 1] : b \in Range(best_inliers)}
        /\ {P.A[r].x.raw : r \in DOMAIN P.A} = {pts2d[b + 1] : b \in Range(best_inliers)}

\* C4: a track is gathered iff its 3D point has nonzero scale and it is seen
\* in view i; the two sets have the same size n, keep the order of the
\* tracks, and the k-th 2D point is the view-i observation (made
\* homogeneous) of the track that gave the k-th 3D point.
C4_ParallelCorrespondences ==
    pc # "start" =>
        /\ Len(pts3d) = Cardinality(UsableIdx)
        /\ Len(pts2d) = Cardinality(UsableIdx)
        /\ pc # "failed" \/ err # "homog" => n = Cardinality(UsableIdx)
        /\ \A k \in 1..Len(pts3d) :
              /\ pts3d[k] = tracks[KthUsable(k)].pt
              /\ pts2d[k] = tracks[KthUsable(k)].views[i] \o <<1>>

C4_Witness ==
    /\ pc = "loop"
    /\ n = 6
    /\ Len(tracks) = 7
    /\ tracks[1].pt[4] = 0

\* C5: no step of resection changes the track database.
C5_TracksNeverMutated == [][tracks' = tracks]_vars

C5_Witness == Returned /\ it > 1 /\ Len(tracks) > n

\* C8: the budget starts at 1000, no iteration increases it, and it is at
\* most 1000 in every state of the loop and after it.
C8_BudgetNeverIncreases ==
    /\ [](pc # "start" => max_it <= 1000)
    /\ [][pc = "start" /\ pc' = "loop" => max_it' = 1000]_vars
    /\ [][pc = "loop" => max_it' <= max_it]_vars

C8_Witness == pc = "loop" /\ it >= 2 /\ max_it < 1000 /\ max_it > it

\* C9: the loop always ends: the call reaches its end, and with n >= 6 it
\* has then run at least one and at most 1000 iterations.  Every step that
\* stays in the loop is an iteration, taken only while it < budget, and adds
\* one to the counter, which never exceeds 1000; the loop is left only when
\* it >= budget.
C9_LoopTerminates ==
    /\ <>(pc \in {"done", "failed"})
    /\ [](pc = "loop" => it <= 1000 /\ ENABLED NextResection)
    /\ [](pc = "done" \/ (pc = "failed" /\ err = "inliers") =>
             it >= 1 /\ it <= 1000 /\ it >= max_it)
    /\ [][pc = "loop" /\ pc' = "loop" =>
             it' = it + 1 /\ it < max_it /\ it < 1000]_vars
    /\ [][pc = "loop" /\ n >= 6 /\ pc' # "loop" => it >= max_it]_vars

C9_Witness == pc = "failed" /\ err = "inliers" /\ it = 1000

\* C10: in the loop and after it, the size of best_inliers is the largest
\* inlier count of the iterations run so far and its indices lie in 0..n-1;
\* best_inliers changes only to a strictly larger set.
C10_BestIsLargest ==
    /\ [](pc \in {"loop", "done", "failed"} =>
             /\ Len(best_inliers) = maxSeen
             /\ Range(best_inliers) \subseteq 0..(n - 1))
    /\ [][best_inliers' # best_inliers => Len(best_inliers') > Len(best_inliers)]_vars

C10_Witness ==
    /\ pc = "loop"
    /\ it >= 2
    /\ n = 7
    /\ best_inliers = Interval(1, 6)
----------------------------------------------------------------------------
(* Properties of transform *)

\* C6 as stated: for a nonsingular H, one upgraded camera per camera, and for
\* every camera and every point the projection of the upgraded point through
\* the upgraded camera equals the original projection up to a nonzero scale.
C6_ProjectionPreservedForEveryPoint ==
    tpc = "done" /\ Det(aff_hom) # 0 =>
        /\ Len(cams_aff) = Len(cams_pr)
        /\ \A c \in 1..Len(cams_pr) : \A k \in 1..Len(Xprj) :
              ProportionalQ(Project(cams_aff[c], Xaff[k]), MatVec(cams_pr[c], Xprj[k]))

\* C6 amended: a nonsingular H always yields a result, with one upgraded
\* camera per camera in the same order (P_affine H = P), and the projection
\* is preserved up to a nonzero scale for every camera and every point whose
\* upgraded homogeneous scale (H X)[3] is not zero.
C6_ProjectionPreserved ==
    /\ tpc = "failed" => Det(aff_hom) = 0
    /\ tpc = "done" /\ Det(aff_hom) # 0 =>
        /\ Len(cams_aff) = Len(cams_pr)
        /\ Len(Xaff) = Len(Xprj)
        /\ \A c \in 1..Len(cams_pr) :
              /\ cams_aff[c].den # 0
              /\ MatMul(cams_aff[c].num, aff_hom) = Scale(cams_aff[c].den, cams_pr[c])
        /\ \A c \in 1..Len(cams_pr) : \A k \in 1..Len(Xprj) :
              MatVec(aff_hom, Xprj[k])[4] # 0 =>
                 ProportionalQ(Project(cams_aff[c], Xaff[k]),
                               MatVec(cams_pr[c], Xprj[k]))

C6_Witness ==
    /\ tpc = "done"
    /\ Det(aff_hom) = 2
    /\ Len(cams_aff) = 2
    /\ cams_pr[1] # cams_pr[2]
    /\ \E k \in 1..Len(Xaff) : Xaff[k].den = 2

----------------------------------------------------------------------------
(* Properties of KRt_from_P *)

Flatten(M) == M[1] \o M[2] \o M[3]

Identity3 == Diag3(<<1, 1, 1>>)

\* C7: whenever K, R, t are returned, whatever the signs of the raw
\* factors, K is upper triangular with a positive diagonal and K[2,2] = 1, R
\* is orthogonal with det +1, and K [R | t] equals P up to one nonzero
\* scale; the call fails exactly when the raw K has a zero on its diagonal.
C7_CanonicalFactorization ==
    /\ kpc = "done" =>
        /\ IsUpper(K.num)
        /\ \A d \in 1..3 : K.num[d][d] * K.den > 0
        /\ K.num[3][3] = K.den
        /\ MatMul(R, Transpose(R)) = Identity3
        /\ Det(R) = 1
        /\ t.den # 0
        /\ Proportional(Flatten(HCat(MatMul(K.num, Scale(t.den, R)),
                                     MatVec(K.num, t.num))),
                        Flatten(Pcam))
        /\ \A d \in 1..3 : rawK[d][d] # 0
    /\ kpc = "failed" => \E d \in 1..3 : rawK[d][d] = 0

C7_Witness ==
    /\ kpc = "done"
    /\ rawK[1][1] < 0
    /\ rawK[3][3] > 0
    /\ Det(rawR) = -1
    /\ Det(MatMul(SignFix(rawK), rawR)) < 0
    /\ Pcam[3][4] # 0
    /\ K.den = 2

====
